---------------------------- MODULE Spec2Model ----------------------------
(***************************************************************************)
(* Model of packages/nodes-base/nodes/UnitTest/GenericFunctions.ts:        *)
(* the output-branch resolver (nodeOutputs), the two test-data             *)
(* materializers (getReturnNodeJsonFromKeyValue, getReturnNodeJsonFromJson),*)
(* the input gatherer (getNodeInputsData) and the trigger correlator       *)
(* (getTriggerTestMetaData).                                               *)
(*                                                                         *)
(* A JavaScript object is a function whose domain is its set of keys; a    *)
(* key that is not in the domain reads as undefined.  A call's outcome is  *)
(* a record  [kind |-> "return", value |-> v]  or                          *)
(* [kind |-> "throw", error |-> e].                                        *)
(***************************************************************************)
EXTENDS Integers, Sequences, FiniteSets, TLC

VARIABLES
    fn,               \* the function that was called ("idle" before the call)
    pc,               \* "idle", "scan" (inside the correlator's loop), "done"
    args,             \* the arguments of the call
    result,           \* the outcome of the call, once pc = "done"
    testTriggerNodes, \* getTriggerTestMetaData: the filtered ancestor list
    idx,              \* getTriggerTestMetaData: next element of the for-of loop
    triggerName,      \* getTriggerTestMetaData: local `triggerName`
    triggerMetaData   \* getTriggerTestMetaData: local `triggerMetaData`

vars == <<fn, pc, args, result, testTriggerNodes, idx, triggerName, triggerMetaData>>

---------------------------------------------------------------------------
(* Bounds of the model *)

MaxAncestors == 3   \* parent nodes returned by getParentNodes
MaxRuns      == 2   \* test runs handed to a materializer
MaxRows      == 2   \* key/value rows of one test run
MaxInputs    == 3   \* input connections of the node

---------------------------------------------------------------------------
(* JavaScript values *)

EmptyObject == [k \in {} |-> k]

Has(obj, key) == key \in DOMAIN obj

NoResult == [kind |-> "none"]
Return(v) == [kind |-> "return", value |-> v]
Throw(e)  == [kind |-> "throw", error |-> e]

\* all sequences over S of length at most n
SeqUpTo(S, n) == UNION {[1..k -> S] : k \in 0..n}

Main == "main"                                  \* NodeConnectionType.Main
UnitTestTriggerType == "n8n-nodes-base.unitTestTrigger"
ReservedKey == "_unitTest"

---------------------------------------------------------------------------
(* nodeOutputs *)

\* a toggle is explicit exactly when the field reads as something other
\* than undefined: additionalFields present and the key present in it
IsDefinedMutTruthy(parameters, field) ==
    /\ Has(parameters, "additionalFields")
    /\ Has(parameters.additionalFields, field)
    /\ parameters.additionalFields[field]

IsDefined(parameters, field) ==
    /\ Has(parameters, "additionalFields")
    /\ Has(parameters.additionalFields, field)

\* input !== undefined ? input : default
ResolveToggle(parameters, field, default) ==
    IF IsDefined(parameters, field)
    THEN parameters.additionalFields[field]
    ELSE default

CleanUpBranch == [type |-> Main, displayName |-> "Clean Up"]
OnFailBranch  == [type |-> Main, displayName |-> "On Fail", category |-> "error"]

nodeOutputs(parameters, cleanUpBranchDefault, failBranchDefault) ==
    LET isCleanUpBranchEnabled ==
            ResolveToggle(parameters, "isCleanUpBranchEnabled", cleanUpBranchDefault)
        isFailBranchEnabled ==
            ResolveToggle(parameters, "isFailBranchEnabled", failBranchDefault)
    IN  (IF isCleanUpBranchEnabled THEN <<CleanUpBranch>> ELSE << >>)
        \o (IF isFailBranchEnabled THEN <<OnFailBranch>> ELSE << >>)

ToggleFields == {"isCleanUpBranchEnabled", "isFailBranchEnabled"}

\* additionalFields with any subset of the two toggles set to true or false
AdditionalFieldsValues == UNION {[D -> BOOLEAN] : D \in SUBSET ToggleFields}

\* the parameter bag, with or without additionalFields
ParameterBags ==
    {EmptyObject} \cup {[additionalFields |-> af] : af \in AdditionalFieldsValues}

CallNodeOutputs ==
    /\ pc = "idle"
    /\ \E parameters \in ParameterBags, cleanUpBranchDefault \in BOOLEAN,
          failBranchDefault \in BOOLEAN :
         /\ fn' = "nodeOutputs"
         /\ args' = [parameters |-> parameters,
                     cleanUpBranchDefault |-> cleanUpBranchDefault,
                     failBranchDefault |-> failBranchDefault]
         /\ result' = Return(nodeOutputs(parameters, cleanUpBranchDefault,
                                         failBranchDefault))
    /\ pc' = "done"
    /\ UNCHANGED <<testTriggerNodes, idx, triggerName, triggerMetaData>>

---------------------------------------------------------------------------
(* Test-data materializers *)

TestIds   == {"T1", "T2"}
RunNames  == {"", "A"}          \* a run name as typed by the user, "" when blank
RowKeys   == {"x", ReservedKey}

\* obj[key] = value
SetKey(obj, key, value) ==
    [k \in DOMAIN obj \cup {key} |-> IF k = key THEN value ELSE obj[k]]

\* item.testRunName || 'unnamed': undefined and "" are both falsy
RunNameOrUnnamed(item) ==
    IF Has(item, "testRunName") /\ item.testRunName # ""
    THEN item.testRunName
    ELSE "unnamed"

UnitTestMetaDataMutNoId(testId, item, triggerInputData) ==
    [testRunName |-> RunNameOrUnnamed(item),
     triggerInputData |-> triggerInputData]

\* const unitTestMetadata = { testId, testRunName, triggerInputData }
UnitTestMetaData(testId, item, triggerInputData) ==
    [testId |-> testId,
     testRunName |-> RunNameOrUnnamed(item),
     triggerInputData |-> triggerInputData]

RECURSIVE FoldRowsMutFirstWins(_, _)
FoldRowsMutFirstWins(rows, jsonObject) ==
    IF rows = << >> THEN jsonObject
    ELSE FoldRowsMutFirstWins(Tail(rows),
             IF Has(jsonObject, Head(rows).key) THEN jsonObject
             ELSE SetKey(jsonObject, Head(rows).key, Head(rows).value))

\* keyValueData.forEach(({ key, value }) => { jsonObject[key] = value; })
RECURSIVE FoldRows(_, _)
FoldRows(rows, jsonObject) ==
    IF rows = << >> THEN jsonObject
    ELSE FoldRows(Tail(rows), SetKey(jsonObject, Head(rows).key, Head(rows).value))

\* the callback of rawKeyValueData.map
KeyValueItem(item, testId) ==
    IF DOMAIN item.testRun = {}              \* Object.keys(item.testRun).length === 0
    THEN [json |-> EmptyObject]
    ELSE LET jsonObject == FoldRows(item.testRun.keyValueData, EmptyObject)
         IN  [json |-> SetKey(jsonObject, ReservedKey,
                              UnitTestMetaData(testId, item, jsonObject))]

\* a call's arguments are an object; an argument that is undefined is absent
getReturnNodeJsonFromKeyValue(callArgs) ==
    IF ~Has(callArgs, "rawKeyValueData")
    THEN << >>
    ELSE [i \in 1..Len(callArgs.rawKeyValueData) |->
             KeyValueItem(callArgs.rawKeyValueData[i], callArgs.testId)]

\* the row lists of at most MaxRows rows: any keys, in any order and with
\* repetitions; the value of a row names its position, so that rows with
\* the same key differ in their values
KeyValueData ==
    {[j \in 1..Len(keys) |-> [key |-> keys[j], value |-> ToString(j)]] :
        keys \in SeqUpTo(RowKeys, MaxRows)}

\* testRun is {} when the collection was never filled, else {keyValueData: rows}
TestRuns == {EmptyObject} \cup {[keyValueData |-> r] : r \in KeyValueData}

RawKeyValueInputItems ==
    {[testRun |-> tr] : tr \in TestRuns}
    \cup {[testRunName |-> n, testRun |-> tr] : n \in RunNames, tr \in TestRuns}

CallGetReturnNodeJsonFromKeyValue ==
    /\ pc = "idle"
    /\ \E testId \in TestIds :
         \E callArgs \in {[testId |-> testId]}
                \cup {[rawKeyValueData |-> d, testId |-> testId] :
                         d \in SeqUpTo(RawKeyValueInputItems, MaxRuns)} :
            /\ fn' = "getReturnNodeJsonFromKeyValue"
            /\ args' = callArgs
            /\ result' = Return(getReturnNodeJsonFromKeyValue(callArgs))
    /\ pc' = "done"
    /\ UNCHANGED <<testTriggerNodes, idx, triggerName, triggerMetaData>>

---------------------------------------------------------------------------
(* JSON.parse, on a text given as its sequence of tokens, for the JSON     *)
(* subset  value ::= number | "{" [ string ":" number {"," string ":"      *)
(* number} ] "}"                                                           *)

NumberTokens == {"1", "2"}
StringTokens == {"\"a\"", "\"_unitTest\""}

NumberOf(tok) == IF tok = "1" THEN 1 ELSE 2
KeyOf(tok) == IF tok = "\"a\"" THEN "a" ELSE ReservedKey

SyntaxError(text) == [name |-> "SyntaxError", text |-> text]

JsonNumber(n) == [type |-> "number", value |-> n]
JsonObject(f) == [type |-> "object", fields |-> f]

\* the members of an object after "{" or ","; a later duplicate key wins
RECURSIVE ParseMembers(_, _, _)
ParseMembers(toks, fields, text) ==
    IF /\ Len(toks) >= 3
       /\ toks[1] \in StringTokens
       /\ toks[2] = ":"
       /\ toks[3] \in NumberTokens
    THEN LET fields2 == SetKey(fields, KeyOf(toks[1]), NumberOf(toks[3]))
         IN  IF Len(toks) = 3
             THEN Return(JsonObject(fields2))
             ELSE IF toks[4] = "," /\ Len(toks) > 4
                  THEN ParseMembers(SubSeq(toks, 5, Len(toks)), fields2, text)
                  ELSE Throw(SyntaxError(text))
    ELSE Throw(SyntaxError(text))

JSONparse(text) ==
    IF Len(text) = 1 /\ text[1] \in NumberTokens
    THEN Return(JsonNumber(NumberOf(text[1])))
    ELSE IF Len(text) >= 2 /\ text[1] = "{" /\ text[Len(text)] = "}"
         THEN IF Len(text) = 2
              THEN Return(JsonObject(EmptyObject))
              ELSE ParseMembers(SubSeq(text, 2, Len(text) - 1), EmptyObject, text)
         ELSE Throw(SyntaxError(text))

\* {...parsedJson}: the own enumerable properties; a number has none
Spread(parsedJson) ==
    IF parsedJson.type = "object" THEN parsedJson.fields ELSE EmptyObject

\* the callback of rawJsonInputData.map, after a successful parse
JsonItem(item, parsedJson, testId) ==
    [json |-> SetKey(Spread(parsedJson), ReservedKey,
                     UnitTestMetaData(testId, item, parsedJson))]

RECURSIVE MapJsonMutSkip(_, _, _)
MapJsonMutSkip(items, testId, returnData) ==
    IF items = << >> THEN Return(returnData)
    ELSE LET parsed == JSONparse(Head(items).jsonTestRun)
         IN  IF parsed.kind = "throw"
             THEN MapJsonMutSkip(Tail(items), testId, returnData)
             ELSE MapJsonMutSkip(Tail(items), testId,
                      Append(returnData, JsonItem(Head(items), parsed.value, testId)))

\* rawJsonInputData.map(...): the first parse failure is rethrown and ends
\* the call
RECURSIVE MapJson(_, _, _)
MapJson(items, testId, returnData) ==
    IF items = << >> THEN Return(returnData)
    ELSE LET parsed == JSONparse(Head(items).jsonTestRun)
         IN  IF parsed.kind = "throw"
             THEN Throw(parsed.error)
             ELSE MapJson(Tail(items), testId,
                      Append(returnData, JsonItem(Head(items), parsed.value, testId)))

getReturnNodeJsonFromJson(callArgs) ==
    IF ~Has(callArgs, "rawJsonInputData")
    THEN Return(<< >>)
    ELSE MapJson(callArgs.rawJsonInputData, callArgs.testId, << >>)

JsonTexts ==
    { <<"{", "}">>,
      <<"{", "\"a\"", ":", "1", "}">>,
      <<"{", "\"a\"", ":", "1", ",", "\"a\"", ":", "2", "}">>,
      <<"{", "\"a\"", ":", "1", ",", "\"_unitTest\"", ":", "2", "}">>,
      <<"2">>,
      << >>,
      <<"{", "\"a\"", ":", "}">>,
      <<"{", "\"a\"", ":", "1", ",", "}">>,
      <<"{", "\"a\"", ":", "1">> }

RawJsonInputs ==
    {[jsonTestRun |-> t] : t \in JsonTexts}
    \cup {[testRunName |-> n, jsonTestRun |-> t] : n \in RunNames, t \in JsonTexts}

CallGetReturnNodeJsonFromJson ==
    /\ pc = "idle"
    /\ \E testId \in TestIds :
         \E callArgs \in {[testId |-> testId]}
                \cup {[rawJsonInputData |-> d, testId |-> testId] :
                         d \in SeqUpTo(RawJsonInputs, MaxRuns)} :
            /\ fn' = "getReturnNodeJsonFromJson"
            /\ args' = callArgs
            /\ result' = getReturnNodeJsonFromJson(callArgs)
    /\ pc' = "done"
    /\ UNCHANGED <<testTriggerNodes, idx, triggerName, triggerMetaData>>

---------------------------------------------------------------------------
(* getNodeInputsData *)

\* what the host's getInputData answers for one connection
ItemA == [json |-> [v |-> "a"]]
ItemB == [json |-> [v |-> "b"]]
Retrievals ==
    {[kind |-> "items", items |-> b] : b \in {<< >>, <<ItemA>>, <<ItemB, ItemA>>}}
    \cup {[kind |-> "nothing"], [kind |-> "throw"]}

\* an input connection of the node: its type and, for a main connection,
\* the outcome of retrieving its data
InputConnections ==
    {[type |-> "ai_tool"]} \cup {[type |-> Main, data |-> r] : r \in Retrievals}

IsMain(connection) == connection.type = Main

\* NodeHelpers.getConnectionTypes(this.getNodeInputs()).filter(type === Main)
MainInputs(nodeInputs) == SelectSeq(nodeInputs, IsMain)

\* this.getInputData(i), i counted from 1 here: input i of type main
getInputData(nodeInputs, i) == MainInputs(nodeInputs)[i].data

GatherOneMutDrop(returnData, retrieval) ==
    IF retrieval.kind = "throw" THEN returnData
    ELSE IF retrieval.kind = "nothing" THEN Append(returnData, << >>)
    ELSE Append(returnData, retrieval.items)

\* try { returnData.push(this.getInputData(i) ?? []) } catch { returnData.push([]) }
GatherOne(returnData, retrieval) ==
    IF retrieval.kind = "throw" THEN Append(returnData, << >>)
    ELSE IF retrieval.kind = "nothing" THEN Append(returnData, << >>)
    ELSE Append(returnData, retrieval.items)

\* for (let i = 0; i < inputs.length; i++) ...
RECURSIVE GatherInputs(_, _, _)
GatherInputs(nodeInputs, i, returnData) ==
    IF i > Len(MainInputs(nodeInputs)) THEN returnData
    ELSE GatherInputs(nodeInputs, i + 1,
                      GatherOne(returnData, getInputData(nodeInputs, i)))

getNodeInputsData(nodeInputs) == Return(GatherInputs(nodeInputs, 1, << >>))

CallGetNodeInputsData ==
    /\ pc = "idle"
    /\ \E nodeInputs \in SeqUpTo(InputConnections, MaxInputs) :
         /\ fn' = "getNodeInputsData"
         /\ args' = [nodeInputs |-> nodeInputs]
         /\ result' = getNodeInputsData(nodeInputs)
    /\ pc' = "done"
    /\ UNCHANGED <<testTriggerNodes, idx, triggerName, triggerMetaData>>

---------------------------------------------------------------------------
(* getTriggerTestMetaData *)

\* a JavaScript value held by a local: undefined, a string or an object
Undefined == [kind |-> "undefined"]
String(s) == [kind |-> "string", value |-> s]
Object(f) == [kind |-> "object", fields |-> f]

ItemIndexes == {0, 1}
EnvelopeRunNames == {"A", "B"}

\* the envelopes an ancestor's item can carry; testId is optional
Envelopes ==
    {[testId |-> t, testRunName |-> r] : t \in TestIds, r \in EnvelopeRunNames}
    \cup {[testRunName |-> "A"]}

\* what evaluating `$('<name>').item.json._unitTest` does for one ancestor:
\* it throws, or yields undefined (an item without envelope) or an envelope
Evaluations ==
    {[kind |-> "throw"], [kind |-> "value", value |-> Undefined]}
    \cup {[kind |-> "value", value |-> Object(e)] : e \in Envelopes}

AncestorKinds ==
    {[type |-> "n8n-nodes-base.set"]}
    \cup {[type |-> UnitTestTriggerType, evaluates |-> e] : e \in Evaluations}

NodeName(k) == "Node" \o ToString(k)

\* parent nodes in traversal order, named by their position
ParentNodeLists ==
    {[k \in 1..Len(kinds) |->
         IF kinds[k].type = UnitTestTriggerType
         THEN [name |-> NodeName(k), type |-> kinds[k].type,
               evaluates |-> kinds[k].evaluates]
         ELSE [name |-> NodeName(k), type |-> kinds[k].type]] :
       kinds \in SeqUpTo(AncestorKinds, MaxAncestors)}

IsTestTrigger(node) == node.type = UnitTestTriggerType

\* n.evaluateExpression(`{{ $('${triggerNode.name}').item.json._unitTest }}`, itemIndex)
evaluateExpression(triggerNode) == triggerNode.evaluates

\* triggerMetaData?.testId === testId
TestIdMatches(metaData, testId) ==
    /\ metaData.kind = "object"
    /\ Has(metaData.fields, "testId")
    /\ metaData.fields.testId = testId

\* !triggerMetaData
Falsy(value) == value.kind = "undefined"

NoTriggerFoundMutMetaDataOnly(name, metaData) == Falsy(metaData)

\* triggerName === undefined || !triggerMetaData
NoTriggerFound(name, metaData) == name = Undefined \/ Falsy(metaData)

NodeOperationError(itemIndex) ==
    [name |-> "NodeOperationError",
     message |-> "No Test Trigger Node with matching ID found",
     itemIndex |-> itemIndex]

CallGetTriggerTestMetaData ==
    /\ pc = "idle"
    /\ \E parentNodes \in ParentNodeLists, testId \in TestIds,
          itemIndex \in ItemIndexes :
         /\ args' = [parentNodes |-> parentNodes, testId |-> testId,
                     itemIndex |-> itemIndex]
         /\ testTriggerNodes' = SelectSeq(parentNodes, IsTestTrigger)
    /\ fn' = "getTriggerTestMetaData"
    /\ pc' = "scan"
    /\ idx' = 1
    /\ triggerName' = Undefined
    /\ triggerMetaData' = Undefined
    /\ UNCHANGED result

\* one iteration of  for (const triggerNode of testTriggerNodes)
ScanTriggerNode ==
    /\ pc = "scan"
    /\ idx <= Len(testTriggerNodes)
    /\ LET triggerNode == testTriggerNodes[idx]
           evaluation == evaluateExpression(triggerNode)
       IN  IF evaluation.kind = "throw"
           THEN UNCHANGED <<triggerName, triggerMetaData>>     \* catch (e) {}
           ELSE /\ triggerMetaData' = evaluation.value
                /\ triggerName' =
                       IF TestIdMatches(evaluation.value, args.testId)
                       THEN String(triggerNode.name)
                       ELSE triggerName
    /\ idx' = idx + 1
    /\ UNCHANGED <<fn, pc, args, result, testTriggerNodes>>

\* after the loop: throw when no trigger was found, else return triggerMetaData
FinishGetTriggerTestMetaData ==
    /\ pc = "scan"
    /\ idx > Len(testTriggerNodes)
    /\ result' = IF NoTriggerFound(triggerName, triggerMetaData)
                 THEN Throw(NodeOperationError(args.itemIndex))
                 ELSE Return(triggerMetaData)
    /\ pc' = "done"
    /\ UNCHANGED <<fn, args, testTriggerNodes, idx, triggerName, triggerMetaData>>

---------------------------------------------------------------------------

Init ==
    /\ fn = "idle"
    /\ pc = "idle"
    /\ args = EmptyObject
    /\ result = NoResult
    /\ testTriggerNodes = << >>
    /\ idx = 1
    /\ triggerName = Undefined
    /\ triggerMetaData = Undefined

Next ==
    \/ CallNodeOutputs
    \/ CallGetReturnNodeJsonFromKeyValue
    \/ CallGetReturnNodeJsonFromJson
    \/ CallGetNodeInputsData
    \/ CallGetTriggerTestMetaData
    \/ ScanTriggerNode
    \/ FinishGetTriggerTestMetaData

Spec == Init /\ [][Next]_vars

---------------------------------------------------------------------------
(* Properties of getTriggerTestMetaData *)

CorrelatorDone == fn = "getTriggerTestMetaData" /\ pc = "done"

\* the ancestors of the trigger type, in scan order
Candidates == SelectSeq(args.parentNodes, IsTestTrigger)

YieldsEnvelopeWithId(node) ==
    /\ node.evaluates.kind = "value"
    /\ node.evaluates.value.kind = "object"
    /\ Has(node.evaluates.value.fields, "testId")

\* positions of the candidates whose envelope's testId equals the target
Matching ==
    {k \in 1..Len(Candidates) :
        /\ YieldsEnvelopeWithId(Candidates[k])
        /\ Candidates[k].evaluates.value.fields.testId = args.testId}

\* every candidate throws or yields an envelope that has a testId
OnlyThrowsAndEnvelopes ==
    \A k \in 1..Len(Candidates) :
        Candidates[k].evaluates.kind = "throw" \/ YieldsEnvelopeWithId(Candidates[k])

Last(S) == CHOOSE k \in S : \A j \in S : j <= k

\* C1: when every candidate throws or yields an envelope and exactly one
\* candidate's envelope has the target testId, the call returns that
\* candidate's envelope, wherever it sits in the scan order.
C1_ReturnsTheMatchingEnvelope ==
    (CorrelatorDone /\ OnlyThrowsAndEnvelopes /\ Cardinality(Matching) = 1)
        => result = Return(Candidates[Last(Matching)].evaluates.value)

\* C2: whenever at least one candidate's envelope has the target testId, the
\* call does not raise, whatever the other candidates evaluate to.
C2_NoErrorWhenSomeCandidateMatches ==
    (CorrelatorDone /\ Matching # {}) => result.kind # "throw"

\* C3: when no candidate's envelope has the target testId, the call scans
\* every candidate and then fails with the NodeOperationError that carries
\* the itemIndex of the call; no other failure ever leaves the call.
C3_NoMatchFailsWithItemIndex ==
    CorrelatorDone =>
        /\ Matching = {} =>
              /\ result = Throw(NodeOperationError(args.itemIndex))
              /\ idx = Len(Candidates) + 1
        /\ result.kind = "throw" =>
              result.error = NodeOperationError(args.itemIndex)

\* a failed call whose candidates mix a throwing evaluation with an
\* envelope of another testId
C3_Witness ==
    /\ CorrelatorDone
    /\ Matching = {}
    /\ \E k \in 1..Len(Candidates) : Candidates[k].evaluates.kind = "throw"
    /\ \E k \in 1..Len(Candidates) : YieldsEnvelopeWithId(Candidates[k])
    /\ result.kind = "throw"
    /\ args.itemIndex = 1

\* C9: when two or more candidates' envelopes have the target testId, every
\* candidate is scanned and the envelope returned is that of the last
\* matching candidate, whatever the other candidates do.
C9_LastMatchingEnvelopeWins ==
    (CorrelatorDone /\ OnlyThrowsAndEnvelopes /\ Cardinality(Matching) >= 2)
        => /\ idx = Len(Candidates) + 1
           /\ result = Return(Candidates[Last(Matching)].evaluates.value)

---------------------------------------------------------------------------
(* Properties of nodeOutputs *)

Explicit(field) ==
    /\ "additionalFields" \in DOMAIN args.parameters
    /\ field \in DOMAIN args.parameters.additionalFields

EffectiveCleanUp ==
    IF Explicit("isCleanUpBranchEnabled")
    THEN args.parameters.additionalFields.isCleanUpBranchEnabled
    ELSE args.cleanUpBranchDefault

EffectiveFail ==
    IF Explicit("isFailBranchEnabled")
    THEN args.parameters.additionalFields.isFailBranchEnabled
    ELSE args.failBranchDefault

Positions(branches, branch) == {i \in 1..Len(branches) : branches[i] = branch}

\* C4: the result holds the 'Clean Up' branch exactly when the effective
\* clean-up toggle is true and the 'On Fail' branch (category 'error')
\* exactly when the effective fail toggle is true, each at most once,
\* 'Clean Up' before 'On Fail', and nothing else; an unset toggle resolves
\* to its default and an explicit value takes precedence.
C4_OutputBranchesFollowToggles ==
    (fn = "nodeOutputs" /\ pc = "done") =>
        /\ result.kind = "return"
        /\ LET branches == result.value
               cleanUps == Positions(branches, [type |-> "main", displayName |-> "Clean Up"])
               onFails  == Positions(branches, [type |-> "main", displayName |-> "On Fail",
                                                category |-> "error"])
           IN  /\ Cardinality(cleanUps) = IF EffectiveCleanUp THEN 1 ELSE 0
               /\ Cardinality(onFails) = IF EffectiveFail THEN 1 ELSE 0
               /\ Len(branches) = Cardinality(cleanUps) + Cardinality(onFails)
               /\ \A i \in cleanUps : \A j \in onFails : i < j

\* an explicit false on the fail toggle against a true default, with the
\* clean-up toggle explicitly true against a false default
C4_Witness ==
    /\ fn = "nodeOutputs" /\ pc = "done"
    /\ Explicit("isFailBranchEnabled") /\ ~EffectiveFail /\ args.failBranchDefault
    /\ Explicit("isCleanUpBranchEnabled") /\ EffectiveCleanUp /\ ~args.cleanUpBranchDefault
    /\ Len(result.value) = 1

---------------------------------------------------------------------------
(* Properties of the materializers *)

KeyValueDone ==
    /\ fn = "getReturnNodeJsonFromKeyValue" /\ pc = "done"
    /\ "rawKeyValueData" \in DOMAIN args

JsonDone ==
    /\ fn = "getReturnNodeJsonFromJson" /\ pc = "done"
    /\ "rawJsonInputData" \in DOMAIN args

\* the item carries an envelope under the reserved key whose testId is the
\* testId of the call
CarriesEnvelope(item) ==
    /\ ReservedKey \in DOMAIN item.json
    /\ "testId" \in DOMAIN item.json[ReservedKey]
    /\ item.json[ReservedKey].testId = args.testId

\* C5 as stated: every item returned by either materializer carries the
\* envelope under '_unitTest' with the testId of the call.
C5_EveryItemCarriesEnvelope ==
    ((KeyValueDone \/ JsonDone) /\ result.kind = "return")
        => \A i \in 1..Len(result.value) : CarriesEnvelope(result.value[i])

\* C5 amended: every item of getReturnNodeJsonFromJson, and every item of
\* getReturnNodeJsonFromKeyValue for a run whose testRun object has a key,
\* carries the envelope under '_unitTest' with the testId of the call; a
\* run whose testRun object has no keys yields {json: {}} without envelope.
C5_ItemsOfNonEmptyRunsCarryEnvelope ==
    /\ (JsonDone /\ result.kind = "return")
          => \A i \in 1..Len(result.value) : CarriesEnvelope(result.value[i])
    /\ KeyValueDone
          => \A i \in 1..Len(result.value) :
                IF DOMAIN args.rawKeyValueData[i].testRun = {}
                THEN result.value[i] = [json |-> EmptyObject]
                ELSE CarriesEnvelope(result.value[i])

\* a key/value call with a run without keys next to a run whose row is
\* keyed '_unitTest'
C5_Witness ==
    /\ KeyValueDone
    /\ Len(result.value) = 2
    /\ DOMAIN args.rawKeyValueData[1].testRun = {}
    /\ DOMAIN args.rawKeyValueData[2].testRun # {}
    /\ \E j \in 1..Len(args.rawKeyValueData[2].testRun.keyValueData) :
          args.rawKeyValueData[2].testRun.keyValueData[j].key = ReservedKey
    /\ CarriesEnvelope(result.value[2])

\* the run has no rows: keyValueData is absent or is the empty list
EmptyRowSet(item) ==
    \/ "keyValueData" \notin DOMAIN item.testRun
    \/ item.testRun.keyValueData = << >>

\* C6: a run whose keyValueData row set is empty produces {json: {}} at its
\* position, without envelope, and the other runs produce their normal items.
C6_EmptyRowSetYieldsBareItem ==
    KeyValueDone =>
        /\ Len(result.value) = Len(args.rawKeyValueData)
        /\ \A i \in 1..Len(result.value) :
              IF EmptyRowSet(args.rawKeyValueData[i])
              THEN result.value[i] = [json |-> EmptyObject]
              ELSE CarriesEnvelope(result.value[i])

GivenNameOrUnnamed(item) ==
    IF "testRunName" \in DOMAIN item /\ item.testRunName # ""
    THEN item.testRunName
    ELSE "unnamed"

Malformed == {i \in 1..Len(args.rawJsonInputData) :
                 JSONparse(args.rawJsonInputData[i].jsonTestRun).kind = "throw"}

First(S) == CHOOSE k \in S : \A j \in S : k <= j

\* C7: when some run's text is not valid JSON the call raises that parse
\* failure unchanged and returns no items; when every run parses it returns
\* one item per run, in input order, whose envelope has the parsed value as
\* triggerInputData and the run's name, or 'unnamed' when the name is
\* omitted (undefined or blank), as testRunName.
C7_MalformedJsonFailsTheWholeCall ==
    JsonDone =>
        IF Malformed # {}
        THEN result = Throw(JSONparse(
                 args.rawJsonInputData[First(Malformed)].jsonTestRun).error)
        ELSE /\ result.kind = "return"
             /\ Len(result.value) = Len(args.rawJsonInputData)
             /\ \A i \in 1..Len(result.value) :
                   LET envelope == result.value[i].json[ReservedKey]
                       run == args.rawJsonInputData[i]
                   IN  /\ envelope.triggerInputData = JSONparse(run.jsonTestRun).value
                       /\ envelope.testRunName = GivenNameOrUnnamed(run)

\* a call whose first run parses and whose second run is malformed
C7_Witness ==
    /\ JsonDone
    /\ Len(args.rawJsonInputData) = 2
    /\ Malformed = {2}
    /\ result.kind = "throw"

RowKeysOf(rows) == {rows[j].key : j \in 1..Len(rows)}

\* the value of the last row with that key
LastValue(rows, key) ==
    rows[CHOOSE j \in 1..Len(rows) :
            /\ rows[j].key = key
            /\ \A h \in 1..Len(rows) : rows[h].key = key => h <= j].value

Flattened(rows) == [k \in RowKeysOf(rows) |-> LastValue(rows, k)]

Without(obj, key) == [k \in DOMAIN obj \ {key} |-> obj[k]]

\* payload and envelope of the item of a run with rows, apart from the
\* relation between the payload and triggerInputData
FoldedItem(item, run) ==
    LET rows == run.testRun.keyValueData
    IN  /\ DOMAIN item.json = RowKeysOf(rows) \cup {ReservedKey}
        /\ \A k \in RowKeysOf(rows) \ {ReservedKey} : item.json[k] = LastValue(rows, k)
        /\ item.json[ReservedKey] =
               [testId |-> args.testId,
                testRunName |-> GivenNameOrUnnamed(run),
                triggerInputData |-> Flattened(rows)]

HasRows(run) ==
    /\ "keyValueData" \in DOMAIN run.testRun
    /\ run.testRun.keyValueData # << >>

\* C8 as stated: for a run with rows the payload is the fold of the rows
\* (later row wins) plus the envelope {testId, testRunName, triggerInputData},
\* and the payload without '_unitTest' equals triggerInputData, also when a
\* row is keyed '_unitTest'; one item per run, in input order.
C8_PayloadWithoutEnvelopeIsTriggerInputData ==
    KeyValueDone =>
        /\ Len(result.value) = Len(args.rawKeyValueData)
        /\ \A i \in 1..Len(result.value) :
              HasRows(args.rawKeyValueData[i]) =>
                  /\ FoldedItem(result.value[i], args.rawKeyValueData[i])
                  /\ Without(result.value[i].json, ReservedKey)
                         = result.value[i].json[ReservedKey].triggerInputData

\* C8 amended: as C8, but the payload without '_unitTest' equals
\* triggerInputData without its '_unitTest' entry: a row keyed '_unitTest'
\* stays in triggerInputData while the payload holds the envelope there.
C8_PayloadIsFoldPlusEnvelope ==
    KeyValueDone =>
        /\ Len(result.value) = Len(args.rawKeyValueData)
        /\ \A i \in 1..Len(result.value) :
              HasRows(args.rawKeyValueData[i]) =>
                  /\ FoldedItem(result.value[i], args.rawKeyValueData[i])
                  /\ Without(result.value[i].json, ReservedKey)
                         = Without(result.value[i].json[ReservedKey].triggerInputData,
                                   ReservedKey)

\* a call with a run whose two rows share the key x with different values
\* and a run with a row keyed '_unitTest'
C8_Witness ==
    /\ KeyValueDone
    /\ Len(result.value) = 2
    /\ HasRows(args.rawKeyValueData[1]) /\ HasRows(args.rawKeyValueData[2])
    /\ args.rawKeyValueData[1].testRun.keyValueData
           = <<[key |-> "x", value |-> "1"], [key |-> "x", value |-> "2"]>>
    /\ args.rawKeyValueData[2].testRun.keyValueData
           = <<[key |-> ReservedKey, value |-> "1"], [key |-> "x", value |-> "2"]>>
    /\ result.value[1].json.x = "2"

---------------------------------------------------------------------------
(* Properties of getNodeInputsData *)

MainConnections == SelectSeq(args.nodeInputs, LAMBDA c : c.type = "main")

\* C10: no retrieval failure leaves the call; the result has one batch per
\* main input connection, in input order; the batch of a branch whose
\* retrieval threw or returned nothing is empty and the other branches keep
\* their items.
C10_OneBatchPerMainInput ==
    (fn = "getNodeInputsData" /\ pc = "done") =>
        /\ result.kind = "return"
        /\ Len(result.value) = Len(MainConnections)
        /\ \A k \in 1..Len(MainConnections) :
              result.value[k] = IF MainConnections[k].data.kind = "items"
                                THEN MainConnections[k].data.items
                                ELSE << >>

\* a failing branch between a non-main connection and a branch with items
C10_Witness ==
    /\ fn = "getNodeInputsData" /\ pc = "done"
    /\ Len(args.nodeInputs) = 3
    /\ args.nodeInputs[1].type # "main"
    /\ args.nodeInputs[2].type = "main" /\ args.nodeInputs[2].data.kind = "throw"
    /\ args.nodeInputs[3].type = "main" /\ args.nodeInputs[3].data.kind = "items"
    /\ result.value = << << >>, args.nodeInputs[3].data.items >>
    /\ result.value[2] # << >>

=============================================================================
